---- MODULE Spec2Model ----
(***************************************************************************)
(* Model of bsr/priors.py: the prior transforms that map a point of the   *)
(* unit hypercube to physical parameters (BasePrior and its subclasses    *)
(* Uniform, Gaussian, Exponential; BlockPrior; AdFamPrior) and the two    *)
(* helpers forced_identifiability and adaptive_transform.                 *)
(*                                                                         *)
(* Numbers.  A numpy float64 is modelled as a record: a finite value      *)
(* [tag |-> "fin", val |-> v] stands for the real v / Scale (fixed point, *)
(* products and quotients truncated to the grid), and NaN, +inf and -inf  *)
(* are values of their own with IEEE-754 propagation rules.  Roots,       *)
(* logarithms and erfinv are computed on the grid, not looked up.         *)
(*                                                                         *)
(* Arrays.  A 1d numpy array is a sequence; Python index i is TLA+ index  *)
(* i + 1.  numpy slices are views: a write through a slice is modelled by *)
(* threading the caller's array through every call and splicing the       *)
(* callee's version of the slice back (SetSlice).                          *)
(***************************************************************************)
EXTENDS Integers, Sequences, FiniteSets, TLC

VARIABLES prior,    \* the transform object the caller holds
          cube,     \* the caller's hypercube array, current contents
          supplied, \* contents of cube when the latest call was made
          out,      \* outcome of the latest call: [st, theta, nfunc]
          prev,     \* outcome of the call before the latest one
          ncalls    \* number of calls made so far

vars == <<prior, cube, supplied, out, prev, ncalls>>

(***************************************************************************)
(* Bounds of the model.                                                    *)
(***************************************************************************)
Res == 250       \* fixed-point resolution: Scale = 4 * Res grid steps per unit
GridN == 4       \* hypercube coordinates are drawn from i / GridN, i = 0..GridN
MaxDim == 3      \* longest cube given to a single (non-composite) prior
MaxCalls == 2    \* calls the caller makes on one array
MaxLen == 4      \* longest array given to forced_identifiability on its own

Scale == 4 * Res
Half == Scale \div 2

(***************************************************************************)
(* float64 values                                                          *)
(***************************************************************************)
Fin(v) == [tag |-> "fin", val |-> v]
NaN == [tag |-> "nan", val |-> 0]
PInf == [tag |-> "inf", val |-> 1]
NInf == [tag |-> "inf", val |-> -1]

IsNaN(x) == x.tag = "nan"
IsFin(x) == x.tag = "fin"
IsInf(x) == x.tag = "inf"

Abs(i) == IF i < 0 THEN -i ELSE i
Sgn(i) == IF i < 0 THEN -1 ELSE IF i > 0 THEN 1 ELSE 0
Min(a, b) == IF a < b THEN a ELSE b
Max(a, b) == IF a > b THEN a ELSE b

\* product and quotient of two grid values, truncated toward zero
MulFix(a, b) == Sgn(a) * Sgn(b) * ((Abs(a) * Abs(b)) \div Scale)
DivFix(a, b) == Sgn(a) * Sgn(b) * ((Abs(a) * Scale) \div Abs(b))

FNeg(x) == IF IsNaN(x) THEN NaN ELSE [tag |-> x.tag, val |-> -x.val]

FAdd(x, y) ==
    IF IsNaN(x) \/ IsNaN(y) THEN NaN
    ELSE IF IsInf(x) /\ IsInf(y) THEN (IF x.val = y.val THEN x ELSE NaN)
    ELSE IF IsInf(x) THEN x
    ELSE IF IsInf(y) THEN y
    ELSE Fin(x.val + y.val)

FSub(x, y) == FAdd(x, FNeg(y))

FMul(x, y) ==
    IF IsNaN(x) \/ IsNaN(y) THEN NaN
    ELSE IF IsInf(x) \/ IsInf(y)
         THEN (IF x.val = 0 \/ y.val = 0 THEN NaN
               ELSE IF Sgn(x.val) * Sgn(y.val) > 0 THEN PInf ELSE NInf)
    ELSE Fin(MulFix(x.val, y.val))

\* x / d for a finite non-zero d (the hyperparameter lambd)
FDivBy(x, d) ==
    IF IsNaN(x) THEN NaN
    ELSE IF IsInf(x) THEN (IF Sgn(x.val) * Sgn(d) > 0 THEN PInf ELSE NInf)
    ELSE Fin(DivFix(x.val, d))

\* n * x for an integer n (exact on the grid)
FScale(n, x) ==
    IF IsNaN(x) THEN NaN
    ELSE IF IsInf(x)
         THEN (IF n = 0 THEN NaN ELSE IF Sgn(n) * Sgn(x.val) > 0 THEN PInf ELSE NInf)
    ELSE Fin(n * x.val)

\* x >= y as numpy compares: FALSE when either side is NaN
FGeq(x, y) ==
    IF IsNaN(x) \/ IsNaN(y) THEN FALSE
    ELSE IF IsInf(x) THEN (x.val > 0 \/ (IsInf(y) /\ y.val < 0))
    ELSE IF IsInf(y) THEN y.val < 0
    ELSE x.val >= y.val

(***************************************************************************)
(* x ** (1. / k) on the grid                                               *)
(***************************************************************************)
\* r ** k in fixed point, every product rounded up (r >= 0, k >= 1)
RECURSIVE PowUp(_, _)
PowUp(r, k) ==
    IF k = 1 THEN r
    ELSE (PowUp(r, k - 1) * r + Scale - 1) \div Scale

\* the largest r in lo..hi with PowUp(r, k) <= c, given PowUp(lo, k) <= c
RECURSIVE RootSearch(_, _, _, _)
RootSearch(c, k, lo, hi) ==
    IF lo >= hi THEN lo
    ELSE LET mid == (lo + hi + 1) \div 2
         IN  IF PowUp(mid, k) <= c THEN RootSearch(c, k, mid, hi)
             ELSE RootSearch(c, k, lo, mid - 1)

RootFix(c, k) == RootSearch(c, k, 0, Max(c, Scale))

\* numpy's x ** (1. / k), k >= 1
FRoot(x, k) ==
    IF IsNaN(x) THEN NaN
    ELSE IF IsInf(x) THEN (IF k = 1 THEN x ELSE PInf)
    ELSE IF k = 1 THEN x
    ELSE IF x.val < 0 THEN NaN
    ELSE Fin(RootFix(x.val, k))

(***************************************************************************)
(* np.log on the grid: ln(v / Scale) * Scale for v > 0                     *)
(***************************************************************************)
\* sum of p / n + p z^2 / (n + 2) + ... until the term vanishes on the grid
RECURSIVE AtanhSum(_, _, _)
AtanhSum(z, p, n) ==
    IF p = 0 THEN 0
    ELSE p \div n + AtanhSum(z, MulFix(MulFix(p, z), z), n + 2)

\* ln m for 1 <= m <= 2, as 2 atanh((m - 1) / (m + 1))
LnMant(m) ==
    LET z == ((m - Scale) * Scale) \div (m + Scale)
    IN  2 * AtanhSum(z, z, 1)

Ln2 == LnMant(2 * Scale)

RECURSIVE LnFix(_)
LnFix(v) ==
    IF v < Scale THEN LnFix(2 * v) - Ln2
    ELSE IF v > 2 * Scale THEN LnFix(v \div 2) + Ln2
    ELSE LnMant(v)

FLog(x) ==
    IF IsNaN(x) THEN NaN
    ELSE IF IsInf(x) THEN (IF x.val > 0 THEN PInf ELSE NaN)
    ELSE IF x.val < 0 THEN NaN
    ELSE IF x.val = 0 THEN NInf
    ELSE Fin(LnFix(x.val))

(***************************************************************************)
(* scipy.special.erfinv on the grid, to the nearest grid value.            *)
(*                                                                         *)
(* For |x| <= 3/4 the value is the Maclaurin series                        *)
(*   erfinv(x) = t + t^3 / 3 + 7 t^5 / 30 + 127 t^7 / 630 + ...,           *)
(*   t = (sqrt(pi) / 2) x,                                                 *)
(* summed on a grid 32 times finer than Scale (twelve terms: the rest is   *)
(* below 0.00004).  For 3/4 < |x| < 1 it is computed from the logarithm:   *)
(*   erfinv(x)^2 = q / (sqrt(A^2 + q) + A),                                *)
(*   q = -ln(1 - x^2) / a,  A = 2 / (pi a) + ln(1 - x^2) / 2,  a = 0.147   *)
(* with ln(1 - x^2) = ln(1 - x) + ln(1 + x), both arguments on the grid    *)
(* (within 0.5 % of erfinv there).                                         *)
(***************************************************************************)
Fine == 32 * Scale

\* a * b for a, b >= 0 on the fine grid
MulFine(a, b) == (a * b) \div Fine

\* a / b to the nearest integer, a >= 0, b > 0
RoundDiv(a, b) == (2 * a + b) \div (2 * b)

\* the square root of c >= 0 to the nearest grid value
NearRoot(c) ==
    LET r == RootFix(c, 2)
    IN  IF (r + 1) * (r + 1) - c * Scale < c * Scale - r * r THEN r + 1 ELSE r

\* the coefficients 1, 1/3, 7/30, 127/630, ... of the series, in 1 / 10000
ErfinvCoef ==
    <<10000, 3333, 2333, 2016, 1926, 1953, 2059, 2232, 2470, 2777, 3161, 3637>>

\* u (c[k] + u (c[k+1] + ...)) on the fine grid, c[k] = ErfinvCoef[k + 1]
RECURSIVE ErfinvHorner(_, _)
ErfinvHorner(u, k) ==
    IF k >= Len(ErfinvCoef) THEN 0
    ELSE MulFine(u, (ErfinvCoef[k + 1] * Fine) \div 10000
                        + ErfinvHorner(u, k + 1))

\* the series for 0 <= x <= 3/4
ErfinvSeries(x) ==
    LET t == (x * (Fine \div Scale) * 8862) \div 10000     \* sqrt(pi) / 2
        sum == t + MulFine(t, ErfinvHorner(MulFine(t, t), 1))
    IN  RoundDiv(sum, Fine \div Scale)

ErfA == (147 * Scale) \div 1000
ErfB == (4331 * Scale) \div 1000     \* 2 / (pi * 0.147)

\* the logarithmic form for 3/4 < x < 1
ErfinvTail(x) ==
    LET L == LnFix(Scale - x) + LnFix(Scale + x)         \* ln(1 - x^2)
        A == ErfB - (Abs(L) \div 2)
        q == DivFix(Abs(L), ErfA)
    IN  NearRoot(DivFix(q, RootFix(MulFix(A, A) + q, 2) + A))

\* erfinv is odd
ErfinvFix(x) ==
    IF Abs(x) <= (3 * Scale) \div 4 THEN Sgn(x) * ErfinvSeries(Abs(x))
    ELSE Sgn(x) * ErfinvTail(Abs(x))

FErfinv(x) ==
    IF IsNaN(x) \/ IsInf(x) THEN NaN
    ELSE IF Abs(x.val) > Scale THEN NaN
    ELSE IF x.val = Scale THEN PInf
    ELSE IF x.val = -Scale THEN NInf
    ELSE Fin(ErfinvFix(x.val))

Sqrt2 == RootFix(2 * Scale, 2)

(***************************************************************************)
(* numpy arrays                                                            *)
(***************************************************************************)
Zeros(n) == [i \in 1..n |-> Fin(0)]
\* np.full with the shape one short
NanShort(n) == [i \in 1..(n - 1) |-> NaN]
NanFull(n) == [i \in 1..n |-> NaN]

\* a Python index (possibly negative, possibly past the end) clipped to 0..n
NormIdx(i, n) == IF i < 0 THEN Max(i + n, 0) ELSE Min(i, n)

\* a[start:stop]
PySlice(a, start, stop) ==
    LET lo == NormIdx(start, Len(a))
        hi == NormIdx(stop, Len(a))
    IN  IF hi <= lo THEN <<>> ELSE SubSeq(a, lo + 1, hi)

\* number of elements of a[start:stop] for an array of length n
SliceLen(n, start, stop) == Max(NormIdx(stop, n) - NormIdx(start, n), 0)

\* whether a[start:stop] = src is accepted by numpy (same shape, or a
\* length-1 source that is broadcast); otherwise it raises ValueError
Assignable(a, start, stop, src) ==
    \/ Len(src) = SliceLen(Len(a), start, stop)
    \/ Len(src) = 1

\* a after a[start:stop] = src
SetSlice(a, start, stop, src) ==
    LET lo == NormIdx(start, Len(a))
        hi == NormIdx(stop, Len(a))
    IN  [i \in 1..Len(a) |->
            IF i > lo /\ i <= hi
            THEN (IF Len(src) = 1 THEN src[1] ELSE src[i - lo])
            ELSE a[i]]

(***************************************************************************)
(* Outcomes of a call: a returned value or a raised exception, with the    *)
(* caller's array as the call leaves it.                                   *)
(***************************************************************************)
Returned(theta, c) == [st |-> "ok", theta |-> theta, cube |-> c]
Raised(exc, c) == [st |-> exc, theta |-> <<>>, cube |-> c]

(***************************************************************************)
(* forced_identifiability(cube)                                            *)
(***************************************************************************)
\* ordered_cube[n], Python index n, for an array of K = Len(c) elements
RECURSIVE OrderedAt(_, _)
\* the recurrence without the factor ordered_cube[n + 1]
OrderedAtUnchained(c, n) ==
    IF n = Len(c) - 1 THEN FRoot(c[Len(c)], Len(c))
    ELSE FRoot(c[n + 1], n + 1)

\* the recurrence with the exponent 1 / K at every index
OrderedAtSameExponent(c, n) ==
    IF n = Len(c) - 1 THEN FRoot(c[Len(c)], Len(c))
    ELSE FMul(FRoot(c[n + 1], Len(c)), OrderedAt(c, n + 1))

OrderedAt(c, n) ==
    IF n = Len(c) - 1 THEN FRoot(c[Len(c)], Len(c))
    ELSE FMul(FRoot(c[n + 1], n + 1), OrderedAt(c, n + 1))

\* the returned ordered_cube; on an empty array ordered_cube[-1] raises
forced_identifiability(c) ==
    IF Len(c) = 0 THEN Raised("IndexError", c)
    ELSE Returned([i \in 1..Len(c) |-> OrderedAt(c, i - 1)], c)

(***************************************************************************)
(* adaptive_transform(cube, nfunc_min)                                     *)
(***************************************************************************)
\* rounding with ties going up
RoundHalfUp(v) ==
    LET fl == v \div Scale
        fr == v - fl * Scale
    IN  IF 2 * fr < Scale THEN fl ELSE fl + 1

\* np.round of a finite grid value: nearest integer, ties to the even one
RoundHalfEven(v) ==
    LET fl == v \div Scale          \* floor, also for negative v
        fr == v - fl * Scale
    IN  IF 2 * fr < Scale THEN fl
        ELSE IF 2 * fr > Scale THEN fl + 1
        ELSE IF fl % 2 = 0 THEN fl ELSE fl + 1

\* theta[0] = (nfunc_min - 0.5) + (1.0 + nfunc_max - nfunc_min) * cube[0]
LeadingValue(c, nfunc_min) ==
    FAdd(Fin(nfunc_min * Scale - Half),
         FScale(1 + (Len(c) - 1) - nfunc_min, c[1]))

\* returns [st, nfunc, theta]; int() of NaN raises ValueError, int() of an
\* infinity raises OverflowError, theta[0] of an empty array IndexError
adaptive_transform(c, nfunc_min) ==
    IF Len(c) = 0 THEN [st |-> "IndexError", nfunc |-> 0, theta |-> <<>>]
    ELSE LET t0 == LeadingValue(c, nfunc_min)
             theta == [Zeros(Len(c)) EXCEPT ![1] = t0]
         IN  IF IsNaN(t0) THEN [st |-> "ValueError", nfunc |-> 0, theta |-> theta]
             ELSE IF IsInf(t0)
                  THEN [st |-> "OverflowError", nfunc |-> 0, theta |-> theta]
             ELSE [st |-> "ok", nfunc |-> RoundHalfEven(t0.val), theta |-> theta]

(***************************************************************************)
(* The prior objects.  A constructor returns the object's attributes.      *)
(***************************************************************************)
Uniform(minimum, maximum, adaptive, sort, nfunc_min) ==
    [cls |-> "Uniform", minimum |-> minimum, maximum |-> maximum,
     adaptive |-> adaptive, sort |-> sort, nfunc_min |-> nfunc_min]

Gaussian(sigma, positive, adaptive, sort, nfunc_min) ==
    [cls |-> "Gaussian", sigma |-> sigma, positive |-> positive,
     adaptive |-> adaptive, sort |-> sort, nfunc_min |-> nfunc_min]

Exponential(lambd, adaptive, sort, nfunc_min) ==
    [cls |-> "Exponential", lambd |-> lambd,
     adaptive |-> adaptive, sort |-> sort, nfunc_min |-> nfunc_min]

BlockPrior(prior_blocks, block_sizes) ==
    [cls |-> "BlockPrior", prior_blocks |-> prior_blocks,
     block_sizes |-> block_sizes]

AdFamPrior(gg_1d_prior, ta_1d_prior, nfunc) ==
    [cls |-> "AdFamPrior", gg_1d_prior |-> gg_1d_prior,
     ta_1d_prior |-> ta_1d_prior, nfunc |-> nfunc]

(***************************************************************************)
(* cube_to_physical of the three subclasses, for one coordinate            *)
(***************************************************************************)
\* self.minimum + (self.maximum - self.minimum) * cube
UniformToPhysical(p, x) ==
    FAdd(Fin(p.minimum), FMul(Fin(p.maximum - p.minimum), x))

\* - np.log(1 - cube) / self.lambd
ExponentialToPhysical(p, x) ==
    FDivBy(FNeg(FLog(FSub(Fin(Scale), x))), p.lambd)

\* erfinv(cube) or erfinv(2 * cube - 1), times self.sigma * np.sqrt(2)
GaussianToPhysical(p, x) ==
    LET e == IF p.positive THEN FErfinv(x)
             ELSE FErfinv(FSub(FScale(2, x), Fin(Scale)))
    IN  FMul(e, Fin(MulFix(p.sigma, Sqrt2)))

ToPhysical(p, x) ==
    IF p.cls = "Uniform" THEN UniformToPhysical(p, x)
    ELSE IF p.cls = "Exponential" THEN ExponentialToPhysical(p, x)
    ELSE GaussianToPhysical(p, x)

\* self.cube_to_physical(cube) for an array: elementwise, a new array
cube_to_physical(p, c) == [i \in 1..Len(c) |-> ToPhysical(p, c[i])]

(***************************************************************************)
(* BasePrior.__call__(self, cube)                                          *)
(***************************************************************************)
\* the adaptive branch ordering a copy, the caller's array left as it was
AdaptiveBodyOnCopy(p, c, nfunc, theta) ==
    LET fi == forced_identifiability(PySlice(c, 1, 1 + nfunc))
        \* the ordering is applied to a copy of the caller's array
        c2 == IF p.sort THEN SetSlice(c, 1, 1 + nfunc, fi.theta) ELSE c
    IN  IF p.sort /\ fi.st # "ok" THEN Raised(fi.st, c)
        ELSE Returned(SetSlice(theta, 1, Len(c),
                               cube_to_physical(p, PySlice(c2, 1, Len(c)))),
                      c)

\* the adaptive branch after adaptive_transform returned (nfunc, theta)
AdaptiveBody(p, c, nfunc, theta) ==
    LET fi == forced_identifiability(PySlice(c, 1, 1 + nfunc))
        \* cube[1:1 + nfunc] = forced_identifiability(...): a write into
        \* the caller's array
        c2 == IF p.sort THEN SetSlice(c, 1, 1 + nfunc, fi.theta) ELSE c
    IN  IF p.sort /\ fi.st # "ok" THEN Raised(fi.st, c)
        ELSE Returned(SetSlice(theta, 1, Len(c),
                               cube_to_physical(p, PySlice(c2, 1, Len(c)))),
                      c2)

\* the non-adaptive branch: cube is rebound, the caller's array is not written
PlainBody(p, c) ==
    LET fi == forced_identifiability(c)
    IN  IF p.sort /\ fi.st # "ok" THEN Raised(fi.st, c)
        ELSE Returned(cube_to_physical(p, IF p.sort THEN fi.theta ELSE c), c)

\* the call without the try / except around adaptive_transform
BaseCallNoCatch(p, c) ==
    IF p.adaptive
    THEN LET at == adaptive_transform(c, p.nfunc_min)
         IN  IF at.st # "ok" THEN Raised(at.st, c)
             ELSE AdaptiveBody(p, c, at.nfunc, at.theta)
    ELSE PlainBody(p, c)

\* the call with a handler that answers every failure of adaptive_transform
\* with the sentinel
BaseCallSentinelAlways(p, c) ==
    IF p.adaptive
    THEN LET at == adaptive_transform(c, p.nfunc_min)
         IN  IF at.st # "ok" THEN Returned(NanFull(Len(c)), c)
             ELSE AdaptiveBody(p, c, at.nfunc, at.theta)
    ELSE PlainBody(p, c)

BaseCall(p, c) ==
    IF p.adaptive
    THEN LET at == adaptive_transform(c, p.nfunc_min)
         IN  IF at.st = "ValueError"
             THEN (IF IsNaN(c[1]) THEN Returned(NanFull(Len(c)), c)
                   ELSE Raised("ValueError", c))
             ELSE IF at.st # "ok" THEN Raised(at.st, c)
             ELSE AdaptiveBody(p, c, at.nfunc, at.theta)
    ELSE PlainBody(p, c)

(***************************************************************************)
(* BlockPrior.__call__ and AdFamPrior.__call__                             *)
(***************************************************************************)
RECURSIVE Call(_, _)
RECURSIVE BlockLoop(_, _, _, _, _, _)

\* the loop without start += self.block_sizes[i]
BlockLoopStartStuck(p, i, start, end, theta, c) ==
    IF i > Len(p.prior_blocks) THEN Returned(theta, c)
    ELSE LET end2 == end + p.block_sizes[i]
             r == Call(p.prior_blocks[i], PySlice(c, start, end2))
             c2 == SetSlice(c, start, end2, r.cube)
         IN  IF r.st # "ok" THEN Raised(r.st, c2)
             ELSE IF ~Assignable(theta, start, end2, r.theta)
                  THEN Raised("ValueError", c2)
             ELSE BlockLoop(p, i + 1, start, end2,
                            SetSlice(theta, start, end2, r.theta), c2)

\* the loop with end += self.block_sizes[i] moved after the block's call
BlockLoopLateEnd(p, i, start, end, theta, c) ==
    IF i > Len(p.prior_blocks) THEN Returned(theta, c)
    ELSE LET r == Call(p.prior_blocks[i], PySlice(c, start, end))
             c2 == SetSlice(c, start, end, r.cube)
         IN  IF r.st # "ok" THEN Raised(r.st, c2)
             ELSE IF ~Assignable(theta, start, end, r.theta)
                  THEN Raised("ValueError", c2)
             ELSE BlockLoop(p, i + 1, start + p.block_sizes[i],
                            end + p.block_sizes[i],
                            SetSlice(theta, start, end, r.theta), c2)

\* the loop refusing a block that extends past the end of the array
BlockLoopBounded(p, i, start, end, theta, c) ==
    IF i > Len(p.prior_blocks) THEN Returned(theta, c)
    ELSE LET end2 == end + p.block_sizes[i]
             r == Call(p.prior_blocks[i], PySlice(c, start, end2))
             c2 == SetSlice(c, start, end2, r.cube)
         IN  IF end2 > Len(c) THEN Raised("ValueError", c)
             ELSE IF r.st # "ok" THEN Raised(r.st, c2)
             ELSE IF ~Assignable(theta, start, end2, r.theta)
                  THEN Raised("ValueError", c2)
             ELSE BlockLoop(p, i + 1, start + p.block_sizes[i], end2,
                            SetSlice(theta, start, end2, r.theta), c2)

\* the loop body for block i (1-based) with the running start, end, theta
\* and the caller's array c
BlockLoop(p, i, start, end, theta, c) ==
    IF i > Len(p.prior_blocks) THEN Returned(theta, c)
    ELSE LET end2 == end + p.block_sizes[i]
             r == Call(p.prior_blocks[i], PySlice(c, start, end2))
             c2 == SetSlice(c, start, end2, r.cube)
         IN  IF r.st # "ok" THEN Raised(r.st, c2)
             ELSE IF ~Assignable(theta, start, end2, r.theta)
                  THEN Raised("ValueError", c2)
             ELSE BlockLoop(p, i + 1, start + p.block_sizes[i], end2,
                            SetSlice(theta, start, end2, r.theta), c2)

BlockCall(p, c) == BlockLoop(p, 1, 0, 0, Zeros(Len(c)), c)

\* the overwrite without the -self.nfunc stop: theta[1:] = ta_1d_prior(cube[1:])
AdFamOverwriteAll(p, theta, c) ==
    LET t == Call(p.ta_1d_prior, PySlice(c, 1, Len(c)))
        c2 == SetSlice(c, 1, Len(c), t.cube)
    IN  IF t.st # "ok" THEN Raised(t.st, c2)
        ELSE IF ~Assignable(theta, 1, Len(c), t.theta)
             THEN Raised("ValueError", c2)
        ELSE Returned(SetSlice(theta, 1, Len(c), t.theta), c2)

\* the family-B overwrite: theta[1:-self.nfunc] = self.ta_1d_prior(cube[1:-self.nfunc])
AdFamOverwrite(p, theta, c) ==
    LET t == Call(p.ta_1d_prior, PySlice(c, 1, -p.nfunc))
        c2 == SetSlice(c, 1, -p.nfunc, t.cube)
    IN  IF t.st # "ok" THEN Raised(t.st, c2)
        ELSE IF ~Assignable(theta, 1, -p.nfunc, t.theta)
             THEN Raised("ValueError", c2)
        ELSE Returned(SetSlice(theta, 1, -p.nfunc, t.theta), c2)

\* the selector coordinate Uniform(0.5, 2.5)(cube[0])
Selector(x) == UniformToPhysical(Uniform(Half, 5 * Half, FALSE, FALSE, 1), x)

\* the call with the test theta[0] > 1.5
AdFamCallStrict(p, c) ==
    IF Len(c) = 0 THEN Raised("IndexError", c)
    ELSE LET theta0 == [Zeros(Len(c)) EXCEPT ![1] = Selector(c[1])]
             g == Call(p.gg_1d_prior, PySlice(c, 1, Len(c)))
             c1 == SetSlice(c, 1, Len(c), g.cube)
         IN  IF g.st # "ok" THEN Raised(g.st, c1)
             ELSE IF ~Assignable(theta0, 1, Len(c), g.theta)
                  THEN Raised("ValueError", c1)
             ELSE LET theta1 == SetSlice(theta0, 1, Len(c), g.theta)
                  IN  IF FGeq(theta1[1], Fin(3 * Half))
                         /\ theta1[1] # Fin(3 * Half)
                      THEN AdFamOverwrite(p, theta1, c1)
                      ELSE Returned(theta1, c1)

AdFamCall(p, c) ==
    IF Len(c) = 0 THEN Raised("IndexError", c)
    ELSE LET theta0 == [Zeros(Len(c)) EXCEPT ![1] = Selector(c[1])]
             g == Call(p.gg_1d_prior, PySlice(c, 1, Len(c)))
             c1 == SetSlice(c, 1, Len(c), g.cube)
         IN  IF g.st # "ok" THEN Raised(g.st, c1)
             ELSE IF ~Assignable(theta0, 1, Len(c), g.theta)
                  THEN Raised("ValueError", c1)
             ELSE LET theta1 == SetSlice(theta0, 1, Len(c), g.theta)
                  IN  IF FGeq(theta1[1], Fin(3 * Half))
                      THEN AdFamOverwrite(p, theta1, c1)
                      ELSE Returned(theta1, c1)

\* prior(cube) for any of the callables
Call(p, c) ==
    IF p.cls = "BlockPrior" THEN BlockCall(p, c)
    ELSE IF p.cls = "AdFamPrior" THEN AdFamCall(p, c)
    ELSE BaseCall(p, c)

(***************************************************************************)
(* The caller.  It builds a prior once, holds one array of hypercube       *)
(* coordinates and calls the prior on that array.                          *)
(***************************************************************************)
\* coordinates the sampler supplies: the grid 0, 1/GridN, ..., 1 and the
\* NaN sentinel
GridVals == {Fin((i * Scale) \div GridN) : i \in 0..GridN}
CubeVals == GridVals \cup {NaN}

Cubes(n) == [1..n -> CubeVals]

Flags == {<<FALSE, FALSE, 1>>, <<FALSE, TRUE, 1>>}
             \cup {<<TRUE, s, m>> : s \in BOOLEAN, m \in {1, 2}}

\* single priors with the hyperparameters get_default_prior and AdFamPrior use
BasePriors ==
    {Uniform(Half, 5 * Half, f[1], f[2], f[3]) : f \in Flags}
        \cup {Exponential(2 * Scale, f[1], f[2], f[3]) : f \in Flags}
        \cup {Gaussian(10 * Scale, FALSE, f[1], f[2], f[3]) : f \in Flags}

\* an adaptive sorted block of three coordinates followed by one plain one
GGBlock ==
    BlockPrior(<<Exponential(2 * Scale, TRUE, TRUE, 1),
                 Uniform(0, Scale, FALSE, FALSE, 1)>>, <<3, 1>>)

\* the other family: the adaptive sorted block alone
TABlock == BlockPrior(<<Exponential(Half, TRUE, TRUE, 1)>>, <<3>>)

\* family selector over the two, one trailing family-invariant coordinate
AdFam == AdFamPrior(GGBlock, TABlock, 1)

\* the length of cube a prior is configured for
RECURSIVE SumSeq(_)
SumSeq(q) == IF q = <<>> THEN 0 ELSE Head(q) + SumSeq(Tail(q))

NoCall == [st |-> "none", theta |-> <<>>]

Init ==
    /\ \/ \E p \in BasePriors, n \in 1..MaxDim : prior = p /\ cube \in Cubes(n)
       \/ prior = GGBlock /\ cube \in Cubes(SumSeq(GGBlock.block_sizes))
       \/ prior = AdFam /\ cube \in Cubes(1 + SumSeq(GGBlock.block_sizes))
    /\ supplied = cube
    /\ out = NoCall
    /\ prev = NoCall
    /\ ncalls = 0

\* theta = prior(cube): the whole call, with its writes to the caller's array
CallPrior ==
    /\ ncalls < MaxCalls
    /\ LET r == Call(prior, cube)
       IN  /\ cube' = r.cube
           /\ out' = [st |-> r.st, theta |-> r.theta]
    /\ supplied' = cube
    /\ prev' = out
    /\ ncalls' = ncalls + 1
    /\ UNCHANGED prior

Next == CallPrior

Spec == Init /\ [][Next]_vars

(***************************************************************************)
(* The helpers on their own: forced_identifiability applied to an array of *)
(* grid coordinates, adaptive_transform applied to an array and nfunc_min. *)
(***************************************************************************)
GridCubes(n) == [1..n -> GridVals]

InitFI ==
    /\ prior = [cls |-> "forced_identifiability"]
    /\ \E n \in 1..MaxLen : cube \in GridCubes(n)
    /\ supplied = cube
    /\ out = NoCall
    /\ prev = NoCall
    /\ ncalls = 0

\* ordered_cube = forced_identifiability(cube)
ApplyFI ==
    /\ ncalls = 0
    /\ LET r == forced_identifiability(cube)
       IN  /\ cube' = r.cube
           /\ out' = [st |-> r.st, theta |-> r.theta]
    /\ supplied' = cube
    /\ prev' = out
    /\ ncalls' = 1
    /\ UNCHANGED prior

NextFI == ApplyFI

SpecFI == InitFI /\ [][NextFI]_vars

InitAT ==
    /\ \E m \in {1, 2} : prior = [cls |-> "adaptive_transform", nfunc_min |-> m]
    /\ \E n \in 2..(MaxDim + 1) : cube \in Cubes(n)
    /\ supplied = cube
    /\ out = NoCall
    /\ prev = NoCall
    /\ ncalls = 0

\* nfunc, theta = adaptive_transform(cube, nfunc_min)
ApplyAT ==
    /\ ncalls = 0
    /\ LET r == adaptive_transform(cube, prior.nfunc_min)
       IN  out' = [st |-> r.st, theta |-> r.theta, nfunc |-> r.nfunc]
    /\ supplied' = cube
    /\ prev' = out
    /\ ncalls' = 1
    /\ UNCHANGED <<prior, cube>>

NextAT == ApplyAT

SpecAT == InitAT /\ [][NextAT]_vars

(***************************************************************************)
(* Properties                                                              *)
(***************************************************************************)
IsBase(p) == p.cls \in {"Uniform", "Gaussian", "Exponential"}
InUnit(x) == IsFin(x) /\ x.val >= 0 /\ x.val <= Scale
AllNaN(a) == \A i \in 1..Len(a) : IsNaN(a[i])

\* C1: whenever a call of any prior returns, the returned vector has the
\* length of the cube it was given, the all-NaN sentinel vector included.
C1_LengthPreserved ==
    (ncalls > 0 /\ out.st = "ok") => Len(out.theta) = Len(supplied)

\* a call of the family selector returned the sentinel in its adaptive block
C1_Witness ==
    /\ ncalls > 0 /\ out.st = "ok"
    /\ prior.cls = "AdFamPrior"
    /\ IsNaN(out.theta[2])
    /\ Len(out.theta) = 1 + SumSeq(GGBlock.block_sizes)

NonIncreasing(a) == \A i \in 1..(Len(a) - 1) : FGeq(a[i], a[i + 1])
NonDecreasing(a) == \A i \in 1..(Len(a) - 1) : FGeq(a[i + 1], a[i])

\* C2 as stated: for c in [0,1]^K the output of forced_identifiability is
\* non-increasing by index and every element lies in [0,1].
C2_NonIncreasing ==
    (ncalls = 1 /\ out.st = "ok") =>
        /\ NonIncreasing(out.theta)
        /\ \A i \in 1..Len(out.theta) : InUnit(out.theta[i])

\* C2 amended: for c in [0,1]^K the output of forced_identifiability is
\* non-decreasing by index (o[0] <= o[1] <= ... <= o[K-1]) and every element
\* lies in [0,1].
C2_NonDecreasing ==
    (ncalls = 1 /\ out.st = "ok") =>
        /\ Len(out.theta) = Len(supplied)
        /\ NonDecreasing(out.theta)
        /\ \A i \in 1..Len(out.theta) : InUnit(out.theta[i])

\* an output of full length that strictly increases at every index
C2_Witness ==
    /\ ncalls = 1 /\ out.st = "ok"
    /\ Len(out.theta) = MaxLen
    /\ \A i \in 1..(MaxLen - 1) : out.theta[i].val < out.theta[i + 1].val

\* C3: for an adaptive block of length D with nfunc_min <= D - 1 and a
\* leading coordinate u0 in [0,1], adaptive_transform returns an active count
\* T with nfunc_min <= T <= D - 1, and u0 = 0.0 gives T = nfunc_min.
C3_AdaptiveBounds ==
    (ncalls = 1 /\ InUnit(supplied[1])
        /\ prior.nfunc_min <= Len(supplied) - 1) =>
        /\ out.st = "ok"
        /\ prior.nfunc_min <= out.nfunc
        /\ out.nfunc <= Len(supplied) - 1
        /\ (supplied[1].val = 0 => out.nfunc = prior.nfunc_min)

\* C4: a call never modifies the caller's input cube: after the call the
\* array holds the values it held when the call was made.
C4_InputUnchanged ==
    ncalls > 0 => cube = supplied

SelectsB(c) == FGeq(Selector(c[1]), Fin(3 * Half))

\* C5: for the family selector with s >= 1.5 the output coordinates
\* theta[1 : D-T] equal family B's transform of cube[1 : D-T] as the caller
\* supplied it (what a standalone call on those values returns).
C5_FamilyBMiddle ==
    (ncalls > 0 /\ prior.cls = "AdFamPrior" /\ out.st = "ok"
        /\ SelectsB(supplied)) =>
        LET b == Call(prior.ta_1d_prior, PySlice(supplied, 1, -prior.nfunc))
        IN  /\ b.st = "ok"
            /\ PySlice(out.theta, 1, -prior.nfunc) = b.theta

\* the last n elements of an array
LastN(a, n) == PySlice(a, Len(a) - n, Len(a))

\* C6: for the family selector, when s < 1.5 output[1:] equals family A's
\* transform of cube[1:], and in both branches the trailing T output
\* coordinates equal the values family A's transform of cube[1:] gives there.
C6_FamilyABaseline ==
    (ncalls > 0 /\ prior.cls = "AdFamPrior" /\ out.st = "ok") =>
        LET a == Call(prior.gg_1d_prior, PySlice(supplied, 1, Len(supplied)))
        IN  /\ a.st = "ok"
            /\ ~SelectsB(supplied) =>
                   PySlice(out.theta, 1, Len(out.theta)) = a.theta
            /\ LastN(out.theta, prior.nfunc) = LastN(a.theta, prior.nfunc)

\* family B was selected and changed the middle coordinates, the trailing
\* coordinate is a finite family-A value
C6_Witness ==
    /\ ncalls > 0 /\ prior.cls = "AdFamPrior" /\ out.st = "ok"
    /\ SelectsB(supplied)
    /\ PySlice(out.theta, 1, -prior.nfunc) #
           PySlice((Call(prior.gg_1d_prior,
                         PySlice(supplied, 1, Len(supplied)))).theta,
                   0, -prior.nfunc)
    /\ IsFin(out.theta[Len(out.theta)])
    /\ out.theta[Len(out.theta)].val > 0

\* C7: two calls in succession with the same cube vector return equal
\* outputs; the result of a call does not depend on the calls made before.
C7_Repeatable ==
    ncalls = 2 => out = prev

\* C8: when the leading coordinate of an adaptive prior's cube is NaN the
\* call raises nothing and returns a vector of the input's length whose
\* elements are all NaN.
C8_NaNSentinel ==
    (ncalls > 0 /\ IsBase(prior) /\ prior.adaptive /\ IsNaN(supplied[1])) =>
        /\ out.st = "ok"
        /\ Len(out.theta) = Len(supplied)
        /\ AllNaN(out.theta)

\* the sentinel returned for a cube of full length with finite slots
C8_Witness ==
    /\ ncalls > 0 /\ IsBase(prior) /\ prior.adaptive /\ prior.sort
    /\ Len(supplied) = MaxDim
    /\ IsNaN(supplied[1])
    /\ \A i \in 2..Len(supplied) : IsFin(supplied[i])
    /\ out.st = "ok" /\ AllNaN(out.theta)

\* Python index of the adaptive block's leading coordinate in the cube of a
\* composite prior, and the block's length
AdaptiveStart(p) == IF p.cls = "AdFamPrior" THEN 1 ELSE 0
AdaptiveLen == GGBlock.block_sizes[1]

\* C9: when the adaptive block inside a BlockPrior, and that BlockPrior
\* inside an AdFamPrior, has a NaN leading coordinate, every enclosing call
\* returns without raising, its output has the input's length and the
\* output coordinates of the adaptive block are all NaN.
C9_SentinelPropagates ==
    (ncalls > 0 /\ prior.cls \in {"BlockPrior", "AdFamPrior"}
        /\ IsNaN(supplied[AdaptiveStart(prior) + 1])) =>
        /\ out.st = "ok"
        /\ Len(out.theta) = Len(supplied)
        /\ AllNaN(PySlice(out.theta, AdaptiveStart(prior),
                          AdaptiveStart(prior) + AdaptiveLen))

\* the family selector chose family B over a NaN adaptive block whose other
\* coordinates, and the coordinate after the block, are finite
C9_Witness ==
    /\ ncalls > 0 /\ prior.cls = "AdFamPrior" /\ out.st = "ok"
    /\ SelectsB(supplied)
    /\ IsNaN(supplied[2])
    /\ \A i \in 3..Len(supplied) : IsFin(supplied[i])
    /\ AllNaN(PySlice(out.theta, 1, 1 + AdaptiveLen))
    /\ IsFin(out.theta[Len(out.theta)])

\* C10: for every cube in [0,1]^D, leading coordinate 0 and 1 included, the
\* call of an adaptive prior (sorted or not) returns without raising and
\* every slot 1..D-1 of the result holds the primitive transform's value of
\* the slot's coordinate.
C10_AdaptiveTotal ==
    (ncalls > 0 /\ IsBase(prior) /\ prior.adaptive
        /\ Len(supplied) >= 2 /\ prior.nfunc_min <= Len(supplied) - 1
        /\ \A i \in 1..Len(supplied) : InUnit(supplied[i])) =>
        /\ out.st = "ok"
        /\ \A i \in 2..Len(supplied) :
               out.theta[i] = ToPhysical(prior, cube[i])

\* Python index at which block i (1-based) of a BlockPrior starts
BlockStart(p, i) == SumSeq(SubSeq(p.block_sizes, 1, i - 1))

\* block i's transform called on its own on sub-vector i of the array a
BlockAlone(p, i, a) ==
    Call(p.prior_blocks[i],
         PySlice(a, BlockStart(p, i), BlockStart(p, i) + p.block_sizes[i]))

\* C11: a BlockPrior whose sizes sum to len(cube) gives sub-vector i of the
\* cube, and nothing else, to block i's transform and writes the result at
\* the same index range of the output: the output at block i is what block
\* i's transform returns for sub-vector i alone, whatever the other
\* coordinates are, and the call returns when every block's transform does.
C11_BlockPartition ==
    (ncalls > 0 /\ prior.cls = "BlockPrior"
        /\ SumSeq(prior.block_sizes) = Len(supplied)) =>
        IF \A i \in 1..Len(prior.prior_blocks) :
               BlockAlone(prior, i, supplied).st = "ok"
        THEN /\ out.st = "ok"
             /\ \A i \in 1..Len(prior.prior_blocks) :
                    PySlice(out.theta, BlockStart(prior, i),
                            BlockStart(prior, i) + prior.block_sizes[i])
                        = BlockAlone(prior, i, supplied).theta
        ELSE out.st # "ok"

\* both blocks returned finite values, the first one after ordering its two
\* active coordinates
C11_Witness ==
    /\ ncalls = 1 /\ prior.cls = "BlockPrior" /\ out.st = "ok"
    /\ Len(prior.prior_blocks) = 2
    /\ \A i \in 1..Len(out.theta) : IsFin(out.theta[i])
    /\ cube[2] # supplied[2]
    /\ out.theta[4] = Fin(Half)

(***************************************************************************)
(* Construction.  The caller names a class and its arguments; __init__     *)
(* either stores them or fails its assertion, and then no object exists.   *)
(***************************************************************************)
AssertionFailed(ctor) == [cls |-> "AssertionError", ctor |-> ctor]

\* Uniform.__init__ with maximum >= minimum accepted
UniformInitGeq(minimum, maximum, adaptive, sort, nfunc_min) ==
    IF maximum >= minimum
    THEN Uniform(minimum, maximum, adaptive, sort, nfunc_min)
    ELSE AssertionFailed("Uniform")

\* Uniform.__init__: assert maximum > minimum, then store both
UniformInit(minimum, maximum, adaptive, sort, nfunc_min) ==
    IF maximum > minimum
    THEN Uniform(minimum, maximum, adaptive, sort, nfunc_min)
    ELSE AssertionFailed("Uniform")

\* BlockPrior.__init__ without its assertion
BlockPriorInitNoAssert(prior_blocks, block_sizes) ==
    BlockPrior(prior_blocks, block_sizes)

\* BlockPrior.__init__: assert len(prior_blocks) == len(block_sizes), then
\* store both
BlockPriorInit(prior_blocks, block_sizes) ==
    IF Len(prior_blocks) = Len(block_sizes)
    THEN BlockPrior(prior_blocks, block_sizes)
    ELSE AssertionFailed("BlockPrior")

\* a pending constructor call
NewUniform(minimum, maximum) ==
    [cls |-> "new", ctor |-> "Uniform",
     minimum |-> minimum, maximum |-> maximum]
NewBlockPrior(prior_blocks, block_sizes) ==
    [cls |-> "new", ctor |-> "BlockPrior",
     prior_blocks |-> prior_blocks, block_sizes |-> block_sizes]

SeqsUpTo2(S) == {<<>>} \cup {<<a>> : a \in S} \cup {<<a, b>> : a, b \in S}

\* the blocks a composition is built from
NewBlocks == {Uniform(0, Scale, FALSE, FALSE, 1),
              Exponential(2 * Scale, TRUE, TRUE, 1)}

Requests ==
    {NewUniform(lo, hi) : lo, hi \in {0, Half, Scale}}
        \cup {NewBlockPrior(b, z) : b \in SeqsUpTo2(NewBlocks),
                                    z \in SeqsUpTo2({1, 2})}

\* the cubes the constructed prior is applied to
NewCubes(n) == [1..n -> {Fin(0), Fin(Half), Fin(Scale)}]

Built(p) == p.cls \notin {"new", "AssertionError"}

InitNew ==
    /\ prior \in Requests
    /\ \E n \in 1..MaxDim : cube \in NewCubes(n)
    /\ supplied = cube
    /\ out = NoCall
    /\ prev = NoCall
    /\ ncalls = 0

\* prior = Uniform(minimum, maximum) or prior = BlockPrior(blocks, sizes)
Construct ==
    /\ prior.cls = "new"
    /\ prior' = IF prior.ctor = "Uniform"
                THEN UniformInit(prior.minimum, prior.maximum, FALSE, FALSE, 1)
                ELSE BlockPriorInit(prior.prior_blocks, prior.block_sizes)
    /\ UNCHANGED <<cube, supplied, out, prev, ncalls>>

\* a call of the constructed object
CallBuilt == Built(prior) /\ CallPrior

NextNew == Construct \/ CallBuilt

SpecNew == InitNew /\ [][NextNew]_vars

\* C12: constructing a block composition whose block sizes do not sum to the
\* dimensionality of the vectors it is applied to fails at construction.
C12_SumChecked ==
    prior.cls = "BlockPrior" => SumSeq(prior.block_sizes) = Len(cube)

\* C13: constructing a BlockPrior fails with an assertion error, and yields
\* no object, exactly when the number of blocks differs from the number of
\* sizes; otherwise it succeeds and stores both sequences unchanged.
C13_BlockPriorInit ==
    [][(prior.cls = "new" /\ prior.ctor = "BlockPrior") =>
          IF Len(prior.prior_blocks) # Len(prior.block_sizes)
          THEN prior' = AssertionFailed("BlockPrior")
          ELSE /\ prior'.cls = "BlockPrior"
               /\ prior'.prior_blocks = prior.prior_blocks
               /\ prior'.block_sizes = prior.block_sizes]_vars

\* a construction with two blocks and one size has failed
C13_Witness ==
    /\ prior = AssertionFailed("BlockPrior")
    /\ ncalls = 0

\* C17: constructing a Uniform with maximum <= minimum fails with an
\* assertion error and yields no usable transform; with maximum > minimum
\* construction succeeds and the stored minimum and maximum are the arguments.
C17_UniformInit ==
    [][(prior.cls = "new" /\ prior.ctor = "Uniform") =>
          IF prior.maximum <= prior.minimum
          THEN prior' = AssertionFailed("Uniform") /\ ~Built(prior')
          ELSE /\ prior'.cls = "Uniform"
               /\ prior'.minimum = prior.minimum
               /\ prior'.maximum = prior.maximum]_vars

\* Uniform(0.5, 1.0) was constructed and maps the cube into [0.5, 1.0]
C17_Witness ==
    /\ prior.cls = "Uniform"
    /\ prior.minimum = Half /\ prior.maximum = Scale
    /\ ncalls = 1 /\ out.st = "ok"
    /\ \A i \in 1..Len(out.theta) :
           out.theta[i] = Fin(Half + (supplied[i].val \div 2))

(***************************************************************************)
(* Calls on arrays whose coordinates need not lie in the unit interval.    *)
(***************************************************************************)
WideVals == {Fin(Half), Fin(-Half), Fin(3 * Half), NaN, PInf, NInf}

WideCubes(n) == [1..n -> WideVals]

InitWide ==
    /\ prior \in BasePriors
    /\ \E n \in 1..MaxDim : cube \in WideCubes(n)
    /\ supplied = cube
    /\ out = NoCall
    /\ prev = NoCall
    /\ ncalls = 0

NextWide == CallPrior

SpecWide == InitWide /\ [][NextWide]_vars

OutOfDomain(x) == IsFin(x) /\ (x.val < 0 \/ x.val > Scale)

\* C14: a finite hypercube coordinate outside [0, 1] passed to a transform
\* is reported to the caller as an error at call time, never mapped to an
\* output value.
C14_DomainChecked ==
    (ncalls > 0 /\ \E i \in 1..Len(supplied) : OutOfDomain(supplied[i]))
        => out.st \notin {"ok", "none"}

\* C18: when the leading coordinate of an adaptive transform's input is
\* +infinity or -infinity the call raises; it returns neither the NaN-filled
\* sentinel nor any other vector.
C18_InfiniteLeadingRaises ==
    (ncalls > 0 /\ prior.adaptive /\ IsInf(supplied[1])) =>
        /\ out.st \in {"OverflowError", "ValueError"}
        /\ out.theta = << >>

\* int(-inf) raised OverflowError past the ValueError handler
C18_Witness ==
    /\ ncalls = 1 /\ prior.adaptive
    /\ supplied[1] = NInf
    /\ out.st = "OverflowError"

\* family A's call on cube[1:], as AdFamPrior.__call__ makes it
FamilyA(p, a) == Call(p.gg_1d_prior, PySlice(a, 1, Len(a)))

\* family B's call on cube[1:-nfunc], made after family A's call has written
\* to cube[1:]
FamilyB(p, a) ==
    Call(p.ta_1d_prior,
         PySlice(SetSlice(a, 1, Len(a), FamilyA(p, a).cube), 1, -p.nfunc))

\* C15: the family selector writes s = 0.5 + 2 * cube[0] to output
\* coordinate 0 and selects family A for s in [0.5, 1.5) and family B for
\* s in [1.5, 2.5], the boundary s = 1.5 (cube[0] = 0.5) included; the
\* branch decides output coordinates 1 .. D-T-1 only: coordinate 0 and the
\* trailing T coordinates are the same in both branches.
C15_Selector ==
    (ncalls > 0 /\ prior.cls = "AdFamPrior" /\ IsFin(supplied[1])) =>
        LET a == FamilyA(prior, supplied)
            b == FamilyB(prior, supplied)
            s == Half + 2 * supplied[1].val
        IN  IF a.st # "ok" THEN out.st = a.st
            ELSE IF s >= 3 * Half /\ b.st # "ok" THEN out.st = b.st
            ELSE /\ out.st = "ok"
                 /\ out.theta[1] = Fin(s)
                 /\ LastN(out.theta, prior.nfunc) = LastN(a.theta, prior.nfunc)
                 /\ PySlice(out.theta, 1, -prior.nfunc) =
                        IF s >= 3 * Half THEN b.theta
                        ELSE PySlice(<<Fin(s)>> \o a.theta, 1, -prior.nfunc)

\* cube[0] = 0.5 gave s = 1.5 and family B's values in the middle
C15_Witness ==
    /\ ncalls = 1 /\ prior.cls = "AdFamPrior" /\ out.st = "ok"
    /\ supplied[1] = Fin(Half)
    /\ out.theta[1] = Fin(3 * Half)
    /\ PySlice(out.theta, 1, -prior.nfunc) = FamilyB(prior, supplied).theta
    /\ PySlice(out.theta, 1, -prior.nfunc) #
           PySlice(<<out.theta[1]>> \o FamilyA(prior, supplied).theta,
                   1, -prior.nfunc)

\* the scenario c = [0.25, 0.5, 1.0] and its stated output, in 1 / 10000
ScenarioCube == <<Fin(Scale \div 4), Fin(Half), Fin(Scale)>>
ScenarioOut == <<1768, 7071, 10000>>

\* |x - e / 10000| is at most two grid steps
Approx(x, e) == IsFin(x) /\ Abs(10000 * x.val - e * Scale) <= 2 * 10000

\* C19: forced_identifiability follows the recurrence o[K-1] = c[K-1]^(1/K),
\* o[n] = c[n]^(1/(n+1)) * o[n+1] for n = K-2 .. 0, for every K >= 1; hence
\* for c in [0,1]^K the output is non-decreasing by index; c = [0.25, 0.5, 1.0]
\* gives approximately [0.1768, 0.7071, 1.0]; the input is not modified.
C19_Recurrence ==
    /\ ncalls = 1 =>
           LET K == Len(supplied)
           IN  /\ out.st = "ok"
               /\ Len(out.theta) = K
               /\ out.theta[K] = FRoot(supplied[K], K)
               /\ \A n \in 1..(K - 1) :
                      out.theta[n] =
                          FMul(FRoot(supplied[n], n), out.theta[n + 1])
               /\ NonDecreasing(out.theta)
               /\ cube = supplied
    /\ LET o == forced_identifiability(ScenarioCube)
       IN  /\ o.st = "ok"
           /\ o.cube = ScenarioCube
           /\ \A i \in 1..3 : Approx(o.theta[i], ScenarioOut[i])

\* the scenario was run and its output strictly increases
C19_Witness ==
    /\ ncalls = 1 /\ out.st = "ok"
    /\ supplied = ScenarioCube
    /\ cube = ScenarioCube
    /\ \A i \in 1..3 : Approx(out.theta[i], ScenarioOut[i])
    /\ out.theta[1].val < out.theta[2].val
    /\ out.theta[2].val < out.theta[3].val

\* the active count the call computes from the leading coordinate
ActiveCount(p, a) == adaptive_transform(a, p.nfunc_min).nfunc

\* C20: in an adaptive sorted transform's output for a cube of length D with
\* active count T, slot 0 holds the unrounded leading value, slots 1..T hold
\* the primitive transform of the ordering transform of cube[1..T], the
\* ordering computed over exactly those T coordinates, and each inactive slot
\* j in T+1..D-1 holds the primitive transform of the raw coordinate cube[j].
C20_AdaptiveSortedLayout ==
    (ncalls > 0 /\ IsBase(prior) /\ prior.adaptive /\ prior.sort
        /\ out.st = "ok"
        /\ prior.nfunc_min <= Len(supplied) - 1
        /\ \A i \in 1..Len(supplied) : InUnit(supplied[i])) =>
        LET D == Len(supplied)
            T == ActiveCount(prior, supplied)
            o == forced_identifiability(PySlice(supplied, 1, 1 + T))
        IN  /\ Len(out.theta) = D
            /\ out.theta[1] = LeadingValue(supplied, prior.nfunc_min)
            /\ Len(o.theta) = T
            /\ \A j \in 1..T :
                   out.theta[j + 1] = ToPhysical(prior, o.theta[j])
            /\ \A j \in (T + 1)..(D - 1) :
                   out.theta[j + 1] = ToPhysical(prior, supplied[j + 1])

(***************************************************************************)
(* Concurrent callers.  Two workers share one prior object; each holds its  *)
(* own array and its own call frame (the locals of __call__).  A call runs  *)
(* in stages and the workers' stages interleave.  Here cube, supplied, out, *)
(* prev and ncalls hold one value per worker, and out[w] is the frame of    *)
(* the call in progress until the call returns or raises.                   *)
(***************************************************************************)
Workers == {1, 2}

\* the locals of a call that has just been entered
StartFrame ==
    [st |-> "running", pc |-> "start", theta |-> << >>, nfunc |-> 0,
     i |-> 1, start |-> 0, end |-> 0]

\* a stage's effect: the object, the frame or the outcome, the worker's array
Ret(p, r) ==
    [self |-> p, frame |-> [st |-> r.st, theta |-> r.theta], cube |-> r.cube]
Cont(p, f, c) == [self |-> p, frame |-> f, cube |-> c]

\* the object with nfunc kept as an attribute
WithNfunc(p, n) ==
    [x \in DOMAIN p \cup {"nfunc"} |-> IF x = "nfunc" THEN n ELSE p[x]]

\* BasePrior.__call__ keeping nfunc on self between its two stages
BaseStepOnSelf(p, f, c) ==
    IF ~p.adaptive THEN Ret(p, PlainBody(p, c))
    ELSE IF f.pc = "start"
    THEN LET at == adaptive_transform(c, p.nfunc_min)
         IN  IF at.st = "ValueError"
             THEN (IF IsNaN(c[1]) THEN Ret(p, Returned(NanFull(Len(c)), c))
                   ELSE Ret(p, Raised("ValueError", c)))
             ELSE IF at.st # "ok" THEN Ret(p, Raised(at.st, c))
             ELSE Cont(WithNfunc(p, at.nfunc),
                       [f EXCEPT !.pc = "body", !.theta = at.theta], c)
    ELSE Ret(p, AdaptiveBody(p, c, p.nfunc, f.theta))

\* BasePrior.__call__ in two stages: adaptive_transform inside the try, then
\* the sort and cube_to_physical; the non-adaptive branch is one stage
BaseStep(p, f, c) ==
    IF ~p.adaptive THEN Ret(p, PlainBody(p, c))
    ELSE IF f.pc = "start"
    THEN LET at == adaptive_transform(c, p.nfunc_min)
         IN  IF at.st = "ValueError"
             THEN (IF IsNaN(c[1]) THEN Ret(p, Returned(NanFull(Len(c)), c))
                   ELSE Ret(p, Raised("ValueError", c)))
             ELSE IF at.st # "ok" THEN Ret(p, Raised(at.st, c))
             ELSE Cont(p, [f EXCEPT !.pc = "body", !.nfunc = at.nfunc,
                                    !.theta = at.theta], c)
    ELSE Ret(p, AdaptiveBody(p, c, f.nfunc, f.theta))

\* BlockPrior.__call__: one stage per iteration of the loop, then the return
BlockStep(p, f, c) ==
    LET theta == IF f.pc = "start" THEN Zeros(Len(c)) ELSE f.theta
    IN  IF f.i > Len(p.prior_blocks) THEN Ret(p, Returned(theta, c))
        ELSE LET end2 == f.end + p.block_sizes[f.i]
                 r == Call(p.prior_blocks[f.i], PySlice(c, f.start, end2))
                 c2 == SetSlice(c, f.start, end2, r.cube)
             IN  IF r.st # "ok" THEN Ret(p, Raised(r.st, c2))
                 ELSE IF ~Assignable(theta, f.start, end2, r.theta)
                      THEN Ret(p, Raised("ValueError", c2))
                 ELSE Cont(p, [f EXCEPT !.pc = "loop", !.i = f.i + 1,
                                   !.start = f.start + p.block_sizes[f.i],
                                   !.end = end2,
                                   !.theta = SetSlice(theta, f.start, end2,
                                                      r.theta)], c2)

\* AdFamPrior.__call__: the selector and family A, then the test and family B
AdFamStep(p, f, c) ==
    IF f.pc = "start"
    THEN IF Len(c) = 0 THEN Ret(p, Raised("IndexError", c))
         ELSE LET theta0 == [Zeros(Len(c)) EXCEPT ![1] = Selector(c[1])]
                  g == Call(p.gg_1d_prior, PySlice(c, 1, Len(c)))
                  c1 == SetSlice(c, 1, Len(c), g.cube)
              IN  IF g.st # "ok" THEN Ret(p, Raised(g.st, c1))
                  ELSE IF ~Assignable(theta0, 1, Len(c), g.theta)
                       THEN Ret(p, Raised("ValueError", c1))
                  ELSE Cont(p, [f EXCEPT !.pc = "family",
                                    !.theta = SetSlice(theta0, 1, Len(c),
                                                       g.theta)], c1)
    ELSE IF FGeq(f.theta[1], Fin(3 * Half))
         THEN Ret(p, AdFamOverwrite(p, f.theta, c))
         ELSE Ret(p, Returned(f.theta, c))

\* the next stage of prior(cube) for any of the callables
StepOf(p, f, c) ==
    IF p.cls = "BlockPrior" THEN BlockStep(p, f, c)
    ELSE IF p.cls = "AdFamPrior" THEN AdFamStep(p, f, c)
    ELSE BaseStep(p, f, c)

\* each worker's coordinates: two values that give different active counts,
\* and the NaN sentinel in the leading place
ConcVals == {Fin(Scale \div 4), Fin((3 * Scale) \div 4)}

ConcCubes(n) ==
    [1..n -> ConcVals] \cup {[i \in 1..n |-> IF i = 1 THEN NaN ELSE Fin(Half)]}

ConcPriors ==
    {Exponential(2 * Scale, TRUE, TRUE, 1),
     Uniform(Half, 5 * Half, FALSE, TRUE, 1), GGBlock, AdFam}

\* the length of the arrays the prior p is called on
DimOf(p) ==
    IF p.cls = "BlockPrior" THEN SumSeq(p.block_sizes)
    ELSE IF p.cls = "AdFamPrior" THEN 1 + SumSeq(p.gg_1d_prior.block_sizes)
    ELSE MaxDim

InitConc ==
    /\ prior \in ConcPriors
    /\ cube \in [Workers -> ConcCubes(DimOf(prior))]
    /\ supplied = cube
    /\ out = [w \in Workers |-> NoCall]
    /\ prev = [w \in Workers |-> NoCall]
    /\ ncalls = [w \in Workers |-> 0]

\* worker w enters prior(cube[w])
Invoke(w) ==
    /\ ncalls[w] = 0
    /\ supplied' = [supplied EXCEPT ![w] = cube[w]]
    /\ prev' = [prev EXCEPT ![w] = out[w]]
    /\ out' = [out EXCEPT ![w] = StartFrame]
    /\ ncalls' = [ncalls EXCEPT ![w] = 1]
    /\ UNCHANGED <<prior, cube>>

\* worker w runs the next stage of its call
Stage(w) ==
    /\ out[w].st = "running"
    /\ \E s \in {StepOf(prior, out[w], cube[w])} :
           /\ prior' = s.self
           /\ out' = [out EXCEPT ![w] = s.frame]
           /\ cube' = [cube EXCEPT ![w] = s.cube]
    /\ UNCHANGED <<supplied, prev, ncalls>>

NextConc == \E w \in Workers : Invoke(w) \/ Stage(w)

SpecConc == InitConc /\ [][NextConc]_vars

\* C16: concurrent calls of one transform object by independent workers,
\* each with its own input vector, are safe without locks: under every
\* interleaving each call ends with the outcome it has when run alone, and
\* no step of a call changes the transform's configuration.
C16_ConcurrentSafe ==
    [][/\ prior' = prior
       /\ \A w \in Workers :
              (out[w].st = "running" /\ out'[w].st # "running") =>
                  LET alone == Call(prior, supplied[w])
                  IN  /\ out'[w] = [st |-> alone.st, theta |-> alone.theta]
                      /\ cube'[w] = alone.cube]_vars

\* worker 1 has returned while worker 2 is between the two stages of its own
\* call with a different active count
C16_Witness ==
    /\ prior.cls = "Exponential"
    /\ out[1].st = "ok"
    /\ out[2].st = "running" /\ out[2].pc = "body"
    /\ out[2].nfunc # RoundHalfEven(out[1].theta[1].val)

\* C21: adaptive_transform sets theta[0] = (nfunc_min - 0.5)
\* + (1 + (D-1) - nfunc_min) * u0 without rounding and every other element
\* to 0, and T is theta[0] rounded to the nearest integer, ties going to the
\* even integer: at k + 0.5, T = k if k is even and T = k + 1 if k is odd.
C21_RoundHalfToEven ==
    (ncalls = 1 /\ IsFin(supplied[1])) =>
        LET D == Len(supplied)
            v == (prior.nfunc_min * Scale - Half)
                     + (1 + (D - 1) - prior.nfunc_min) * supplied[1].val
            T == out.nfunc
        IN  /\ out.st = "ok"
            /\ Len(out.theta) = D
            /\ out.theta[1] = Fin(v)
            /\ \A i \in 2..D : out.theta[i] = Fin(0)
            /\ 2 * Abs(T * Scale - v) <= Scale
            /\ 2 * Abs(T * Scale - v) = Scale => T % 2 = 0
            /\ \A k \in 0..(D + 1) :
                   v = k * Scale + Half =>
                       T = IF k % 2 = 0 THEN k ELSE k + 1

\* the leading value is exactly 2.5 and the count is 2, not 3
C21_Witness ==
    /\ ncalls = 1 /\ out.st = "ok"
    /\ prior.nfunc_min = 2
    /\ supplied[1] = Fin(Half)
    /\ out.theta[1] = Fin(2 * Scale + Half)
    /\ out.nfunc = 2

\* the array a after a call of the single prior p on it: only an adaptive
\* sorted call that computed T and ordered cube[1 : 1+T] has written to it
WrittenBy(p, a) ==
    LET at == adaptive_transform(a, p.nfunc_min)
        fi == forced_identifiability(PySlice(a, 1, 1 + at.nfunc))
    IN  IF p.adaptive /\ p.sort /\ at.st = "ok" /\ fi.st = "ok"
        THEN SetSlice(a, 1, 1 + at.nfunc, fi.theta)
        ELSE a

\* the array a after blocks i, i+1, ... of the composition p ran on their
\* sub-vectors, every one of them returning
RECURSIVE BlocksWritten(_, _, _)
BlocksWritten(p, i, a) ==
    IF i > Len(p.prior_blocks) THEN a
    ELSE BlocksWritten(p, i + 1,
             SetSlice(a, BlockStart(p, i), BlockStart(p, i) + p.block_sizes[i],
                      WrittenBy(p.prior_blocks[i],
                                PySlice(a, BlockStart(p, i),
                                        BlockStart(p, i) + p.block_sizes[i]))))

\* the array a after a call of the composition p in which every block returned
BlockWritten(p, a) == BlocksWritten(p, 1, a)

\* the array a after a call of the family selector p that returned
AdFamWritten(p, a) ==
    LET g == SetSlice(a, 1, Len(a),
                      BlockWritten(p.gg_1d_prior, PySlice(a, 1, Len(a))))
    IN  IF SelectsB(a)
        THEN SetSlice(g, 1, -p.nfunc,
                      BlockWritten(p.ta_1d_prior, PySlice(g, 1, -p.nfunc)))
        ELSE g

\* C22: the only write a transform call makes to its input is in the
\* adaptive sorted case: cube[1 : 1+T] is overwritten with the ordering
\* transform of its previous contents, cube[0] and cube[1+T :] are left
\* unchanged; non-adaptive sorted calls, unsorted calls and calls returning
\* the NaN sentinel leave the whole input unchanged.  BlockPrior and
\* AdFamPrior pass aliasing slices, so the write shows in the vector given
\* to the composition.
C22_OnlyAdaptiveSortedWrites ==
    ncalls > 0 =>
        /\ Len(cube) = Len(supplied)
        /\ IsBase(prior) =>
               LET T == ActiveCount(prior, supplied)
               IN  /\ cube = WrittenBy(prior, supplied)
                   /\ cube[1] = supplied[1]
                   /\ (~prior.adaptive \/ ~prior.sort \/ IsNaN(supplied[1])
                          \/ out.st # "ok") => cube = supplied
                   /\ (prior.adaptive /\ prior.sort /\ out.st = "ok"
                          /\ ~IsNaN(supplied[1])) =>
                          /\ PySlice(cube, 1, 1 + T) =
                                 forced_identifiability(
                                     PySlice(supplied, 1, 1 + T)).theta
                          /\ PySlice(cube, 1 + T, Len(cube)) =
                                 PySlice(supplied, 1 + T, Len(supplied))
        /\ (prior.cls = "BlockPrior" /\ out.st = "ok") =>
               cube = BlockWritten(prior, supplied)
        /\ (prior.cls = "AdFamPrior" /\ out.st = "ok") =>
               /\ cube = AdFamWritten(prior, supplied)
               /\ cube[1] = supplied[1]

\* the family selector returned and the caller's vector now holds ordered
\* values in its adaptive block
C22_Witness ==
    /\ ncalls = 1 /\ prior.cls = "AdFamPrior" /\ out.st = "ok"
    /\ cube # supplied
    /\ cube[1] = supplied[1]
    /\ cube[Len(cube)] = supplied[Len(cube)]
    /\ cube[3].val < supplied[3].val

\* the blocks of p (1-based) whose own call on their sub-vector of a raises
FailingBlocks(p, a) ==
    {i \in 1..Len(p.prior_blocks) : BlockAlone(p, i, a).st # "ok"}

\* block i of p is sorted or adaptive and its sub-vector of a is empty
EmptySortedBlock(p, i, a) ==
    /\ p.prior_blocks[i].adaptive \/ p.prior_blocks[i].sort
    /\ PySlice(a, BlockStart(p, i), BlockStart(p, i) + p.block_sizes[i]) = << >>

\* C23 as stated: BlockPrior's call never compares the sum of its block
\* sizes with the cube length: with the sum below the length the call
\* returns without error and every output coordinate at index >= the sum
\* is 0, and with the sum above the length the call returns without error.
C23_AlwaysReturns ==
    (ncalls > 0 /\ prior.cls = "BlockPrior"
        /\ SumSeq(prior.block_sizes) # Len(supplied)) =>
        /\ out.st = "ok"
        /\ \A j \in (SumSeq(prior.block_sizes) + 1)..Len(supplied) :
               out.theta[j] = Fin(0)

\* C23 amended: the call never compares the sum of its block sizes with the
\* cube length and raises only what a block raises on its own sub-vector,
\* cube[start:end] cut off at the end of the cube: an empty sub-vector makes
\* a sorted or adaptive block raise IndexError; when every block returns,
\* the call returns, each block's range holds the block's output and every
\* output coordinate at index >= the sum of the sizes is 0.
C23_BlocksDecide ==
    (ncalls > 0 /\ prior.cls = "BlockPrior") =>
        LET bad == FailingBlocks(prior, supplied)
            first == CHOOSE i \in bad : \A k \in bad : i <= k
        IN  /\ \A i \in 1..Len(prior.prior_blocks) :
                   EmptySortedBlock(prior, i, supplied) =>
                       /\ i \in bad
                       /\ BlockAlone(prior, i, supplied).st = "IndexError"
            /\ IF bad # {}
               THEN out.st = BlockAlone(prior, first, supplied).st
               ELSE /\ out.st = "ok"
                    /\ Len(out.theta) = Len(supplied)
                    /\ \A i \in 1..Len(prior.prior_blocks) :
                           PySlice(out.theta, BlockStart(prior, i),
                                   BlockStart(prior, i) + prior.block_sizes[i])
                               = BlockAlone(prior, i, supplied).theta
                    /\ \A j \in (SumSeq(prior.block_sizes) + 1)..Len(supplied) :
                           out.theta[j] = Fin(0)

\* two unsorted blocks of sizes 1 and 2 on a cube of one coordinate: the
\* second block got an empty sub-vector and the call returned
C23_Witness ==
    /\ ncalls = 1 /\ prior.cls = "BlockPrior" /\ out.st = "ok"
    /\ prior.block_sizes = <<1, 2>>
    /\ Len(supplied) = 1
    /\ BlockAlone(prior, 2, supplied).theta = << >>
    /\ out.theta = <<supplied[1]>>

====
